---- MODULE Spec2Model ----
(***************************************************************************)
(* Model of cmd/load-balancer: a dispatcher goroutine (LoadBalancer.balance)*)
(* owns a heap of workers ordered by pending; producer goroutines           *)
(* (createRequest) submit requests on the unbuffered channel req; worker    *)
(* goroutines (Worker.do) take requests from their buffered work channel,   *)
(* answer on the producer's unbuffered res channel and notify the           *)
(* dispatcher on the buffered done channel.                                 *)
(*                                                                          *)
(* Indices (idx, heap positions) are 0-based as in the Go code; the TLA+    *)
(* sequence pool is 1-based, so Go's pool[i] is pool[i+1] here.             *)
(* The payload Request.data and the value math.Sin(data) do not influence   *)
(* any control flow and are not represented; a request is identified by     *)
(* its reply channel (one per producer) and a history number id.            *)
(*                                                                          *)
(* The module also models two other programs of the repository, each with   *)
(* its own variables and its own specification:                             *)
(*  - clock.NewClock under TestNewClockEquality (SpecClock), with time.Time *)
(*    as wall clock, monotonic reading and location offset;                 *)
(*  - pipeline of cmd/get-til (SpecTil): the goroutine that runs            *)
(*    extractTILSection writes lines through an io.Pipe to                  *)
(*    convertToConsenseFormat.  A line is represented by what the two       *)
(*    functions look at: its kind, its number of leading "- " characters    *)
(*    and its length in bytes.  The bytes in flight are kept line by line   *)
(*    in pipe; the extractor is taken to block only in its last Flush, an   *)
(*    earlier Write to pw that blocks would block it at the same data.      *)
(***************************************************************************)
EXTENDS Integers, Sequences, FiniteSets, TLC

\* ---- sizes -------------------------------------------------------------
\* workerSize and reqClientCount are 10 and 100 in the source; the model
\* scales them down.  MaxTasks caps the number of requests ever created.
workerSize == 3
reqClientCount == 2
MaxTasks == 4

Workers == 1..workerSize
Clients == 1..reqClientCount
TaskIds == 1..MaxTasks

\* A handle that newLoadBalancer never created (e.g. &Worker{}).
Foreign == workerSize + 1

NoWorker == 0
NoReq == [id |-> 0, res |-> 0]

\* Variant: the work channels are made with room for one request fewer.
WorkCapOne == reqClientCount - 1

\* channel capacities
WorkCap == reqClientCount
DoneCap == workerSize

VARIABLES
  pool,        \* LoadBalancer.pool : sequence of worker handles
  idx,         \* Worker.idx, per worker
  pending,     \* Worker.pending, per worker
  work,        \* Worker.work, per worker: buffered channel contents
  done,        \* LoadBalancer.done: buffered channel contents
  wpc,         \* position of each Worker.do goroutine
  wreq,        \* local req of each Worker.do goroutine
  cpc,         \* position of each createRequest goroutine
  creq,        \* the Request a producer is sending / waiting for
  dpc,         \* position of the balance goroutine
  dreq,        \* local request of balance/dispatch
  dw,          \* local w of dispatch/completed
  nextId,      \* history: next task number
  trace,       \* history: per task, what has happened to it
  dispatches,  \* history: number of dispatch calls that returned
  completions, \* history: number of completed calls that returned
  printed,     \* last line written by print (the pending counts)
  stale,       \* history: completed ran for a handle not at pool[idx]
  streak,      \* history: dispatch calls returned since every pending was
               \* 0, with no completed call since then; -1 otherwise
  \* clock (TestNewClockEquality)
  testTime,    \* tc.testTime of the test case that runs
  got,         \* the Clock returned by NewClock, NoClock before the call
  \* cmd/get-til (pipeline)
  extpc,       \* position of the goroutine that runs extractTILSection
  collect,     \* extractTILSection: collect
  scanErr,     \* extractTILSection: scanner.Err() is bufio.ErrTooLong
  nread,       \* history: lines of the input scanned so far
  pipe,        \* lines written to pw that the converter's scanner has not
               \* returned yet (in the bufio.Writer, or in a Write to pw)
  pipeClosed,  \* "open", or how pw was closed first: "eof" / "err"
  convpc,      \* position of convertToConsenseFormat
  indentLevel, \* convertToConsenseFormat: indentLevel
  prevSpaces,  \* convertToConsenseFormat: prevSpaces of prevLine
  output       \* the indent counts of the lines written to output

lbVars == <<pool, idx, pending, work, done, wpc, wreq, cpc, creq, dpc, dreq,
            dw, nextId, trace, dispatches, completions, printed, stale,
            streak>>

clockVars == <<testTime, got>>

tilVars == <<extpc, collect, scanErr, nread, pipe, pipeClosed, convpc,
             indentLevel, prevSpaces, output>>

otherVars == <<clockVars, tilVars>>

vars == <<lbVars, clockVars, tilVars>>

\* ---- clock: time.Time and NewClock ---------------------------------------
\* A time.Time is the record [hasMonotonic, sec, nsec, mono, offset]: the
\* wall-clock seconds and nanoseconds, the monotonic reading (0 when the
\* value carries none) and the offset of its location east of UTC, seconds.
SecondsPerMinute == 60
SecondsPerHour == 60 * SecondsPerMinute
SecondsPerDay == 24 * SecondsPerHour

\* The test times span the days 0..MaxDays; monotonic readings are
\* 1..MaxMono.
MaxDays == 1
MaxMono == 2

\* Time.abs: seconds of the local wall clock.
abs(t) == t.sec + t.offset

Hour(t) == (abs(t) % SecondsPerDay) \div SecondsPerHour
Minute(t) == (abs(t) % SecondsPerHour) \div SecondsPerMinute
Second(t) == abs(t) % SecondsPerMinute

\* Time.stripMono
stripMono(t) ==
  IF t.hasMonotonic THEN [t EXCEPT !.hasMonotonic = FALSE, !.mono = 0] ELSE t

\* Time.Truncate(d), d in nanoseconds: the monotonic reading is dropped; for
\* d <= 0 nothing else changes; a d > 0 that divides one second rounds the
\* nanoseconds down to a multiple of d.
Truncate(t, d) ==
  IF d <= 0 THEN stripMono(t)
  ELSE [stripMono(t) EXCEPT !.nsec = @ - (@ % d)]

\* Time.Equal: the monotonic readings decide when both values carry one,
\* the wall clock otherwise; the location is ignored.
Equal(t, u) ==
  IF t.hasMonotonic /\ u.hasMonotonic
  THEN t.mono = u.mono
  ELSE t.sec = u.sec /\ t.nsec = u.nsec

\* Variant: the time is truncated to the second.
NewClockTruncateSecond(t) ==
  [Hour |-> Hour(t), Minute |-> Minute(t), Second |-> Second(t),
   Time |-> Truncate(t, 1000000000)]

NewClock(t) ==
  [Hour |-> Hour(t), Minute |-> Minute(t), Second |-> Second(t),
   Time |-> Truncate(t, 0)]

\* cmp.Diff(got, want) == "": the int fields are compared with ==, the
\* time.Time field with its Equal method.
cmpEqual(g, w) ==
  /\ g.Hour = w.Hour
  /\ g.Minute = w.Minute
  /\ g.Second = w.Second
  /\ Equal(g.Time, w.Time)

\* The want of the test.
Want(t) ==
  [Hour |-> Hour(t), Minute |-> Minute(t), Second |-> Second(t), Time |-> t]

ZeroTime == [hasMonotonic |-> FALSE, sec |-> 0, nsec |-> 0, mono |-> 0,
             offset |-> 0]

NoClock == [Hour |-> -1, Minute |-> -1, Second |-> -1, Time |-> ZeroTime]

\* time.Date(...) values (no monotonic reading) and time.Now() values
\* (with one), in UTC and in locations east and west of it.
TestTimes ==
  {[hasMonotonic |-> m > 0, sec |-> d * SecondsPerDay + h * SecondsPerHour
                                     + mi * SecondsPerMinute + s,
    nsec |-> n, mono |-> m, offset |-> o] :
     d \in 0..MaxDays, h \in {0, 17, 23}, mi \in {0, 59}, s \in {0, 30, 59},
     n \in {0, 123456789, 999999999}, m \in 0..MaxMono,
     o \in {0, 9 * SecondsPerHour, -5 * SecondsPerHour}}

ClockIdle ==
  /\ testTime = ZeroTime
  /\ got = NoClock

\* ---- cmd/get-til: lines ---------------------------------------------------
\* bufio.MaxScanTokenSize: a Scanner returns a line of fewer bytes than
\* this and fails with ErrTooLong on a longer one.
MaxScanTokenSize == 64 * 1024

\* The input has at most MaxLines lines; a line or a title starts with at
\* most MaxLead characters of "- ".
MaxLines == 5
MaxLead == 3

ScanFits(len) == len < MaxScanTokenSize

\* An input line: blank (only white space), the heading "# わかったこと",
\* another line that starts with "#", or any other line, with its number
\* of leading "- " characters and its length in bytes.
TilHeadingLen == 20

InputLines ==
  {[kind |-> "blank", lead |-> 0, len |-> n] : n \in {1, MaxScanTokenSize}}
  \cup {[kind |-> "til", lead |-> 0, len |-> TilHeadingLen]}
  \cup {[kind |-> "head", lead |-> 0, len |-> n] : n \in {1, MaxScanTokenSize}}
  \cup UNION {{[kind |-> "text", lead |-> l, len |-> n] :
                  n \in {l + 1, MaxScanTokenSize - 1}} : l \in 0..MaxLead}
  \cup {[kind |-> "text", lead |-> 0, len |-> MaxScanTokenSize]}

\* title: its leading "- " characters and its length.
Titles ==
  UNION {{[lead |-> l, len |-> n] : n \in {l + 1, MaxScanTokenSize - 2}} :
           l \in {0, MaxLead}}

\* fmt.Fprintln(writer, "- "+title) and fmt.Fprintln(writer, "  "+line):
\* the line as the converter reads it, two "- " characters longer.
Written(lead, len) == [spaces |-> 2 + lead, len |-> 2 + len]

\* One pass of the loop body of convertToConsenseFormat on indentLevel.
nextIndent(level, prev, currentSpaces) ==
  IF currentSpaces > 0
  THEN IF currentSpaces > prev THEN level + 1
       ELSE IF currentSpaces < prev THEN level - 1
       ELSE level
  ELSE 1

\* pipeline before the goroutine starts; prevLine is "- TIL".
TilStart ==
  /\ extpc = "title"
  /\ collect = FALSE
  /\ scanErr = FALSE
  /\ nread = 0
  /\ pipe = <<>>
  /\ pipeClosed = "open"
  /\ convpc = "scan"
  /\ indentLevel = 1
  /\ prevSpaces = 2
  /\ output = <<>>

\* ---- Pool: heap.Interface ----------------------------------------------
\* A heap value h is [pool |-> sequence, idx |-> function]; p is pending.

\* Variant: the comparison reversed.
PoolLessReversed(h, p, i, j) == p[h.pool[i + 1]] > p[h.pool[j + 1]]

PoolLess(h, p, i, j) == p[h.pool[i + 1]] < p[h.pool[j + 1]]

\* Variant: the second assignment  a[j].idx = j  is missing.
PoolSwapOneIdx(h, i, j) ==
  LET a  == h.pool
      a2 == [a EXCEPT ![i + 1] = a[j + 1], ![j + 1] = a[i + 1]]
  IN  [pool |-> a2, idx |-> [h.idx EXCEPT ![a2[i + 1]] = i]]

PoolSwap(h, i, j) ==
  LET a  == h.pool
      a2 == [a EXCEPT ![i + 1] = a[j + 1], ![j + 1] = a[i + 1]]
  IN  [pool |-> a2,
       idx  |-> [[h.idx EXCEPT ![a2[i + 1]] = i] EXCEPT ![a2[j + 1]] = j]]

PoolPush(h, w) ==
  [pool |-> Append(h.pool, w),
   idx  |-> [h.idx EXCEPT ![w] = Len(h.pool)]]

\* Variant: the slice is not shortened.
PoolPopNoShrink(h) ==
  [pool |-> h.pool, idx |-> [h.idx EXCEPT ![h.pool[Len(h.pool)]] = -1],
   w |-> h.pool[Len(h.pool)]]

\* Pop returns the removed worker in the field w.
PoolPop(h) ==
  LET n == Len(h.pool)
      w == h.pool[n]
  IN  [pool |-> SubSeq(h.pool, 1, n - 1),
       idx  |-> [h.idx EXCEPT ![w] = -1],
       w    |-> w]

\* ---- container/heap ----------------------------------------------------
\* Push, Pop, Remove, up and down of the Go standard library, applied to the
\* Pool methods above.  Pop and Remove return the record of PoolPop.
\* Go's (j - 1) / 2 truncates toward zero, so the parent of 0 is 0.
Parent(j) == IF j = 0 THEN 0 ELSE (j - 1) \div 2

RECURSIVE up(_, _, _)
up(h, p, j) ==
  LET i == Parent(j)
  IN  IF i = j \/ ~PoolLess(h, p, j, i)
      THEN h
      ELSE up(PoolSwap(h, i, j), p, i)

\* down returns the heap and the final position i (the Go function returns
\* i > i0).
RECURSIVE down(_, _, _, _)
down(h, p, i, n) ==
  LET j1 == 2 * i + 1
  IN  IF j1 >= n
      THEN [h |-> h, i |-> i]
      ELSE LET j2 == j1 + 1
               j  == IF j2 < n /\ PoolLess(h, p, j2, j1) THEN j2 ELSE j1
           IN  IF ~PoolLess(h, p, j, i)
               THEN [h |-> h, i |-> i]
               ELSE down(PoolSwap(h, i, j), p, j, n)

heapPush(h, p, w) == up(PoolPush(h, w), p, Len(h.pool))

heapPop(h, p) ==
  LET n == Len(h.pool) - 1
  IN  PoolPop(down(PoolSwap(h, 0, n), p, 0, n).h)

heapRemove(h, p, i) ==
  LET n == Len(h.pool) - 1
  IN  IF n # i
      THEN LET d == down(PoolSwap(h, i, n), p, i, n)
           IN  PoolPop(IF d.i > i THEN d.h ELSE up(d.h, p, i))
      ELSE PoolPop(h)

\* heap.Remove(&pool, i) indexes the slice at i (Swap, or Pop on an empty
\* slice): the runtime panics unless 0 <= i < len(pool).
RemovePanics(h, i) == i \notin 0..(Len(h.pool) - 1)

\* ---- newLoadBalancer ---------------------------------------------------
RECURSIVE newPool(_)
newPool(n) ==
  IF n = 0
  THEN [pool |-> <<>>, idx |-> [w \in Workers |-> 0]]
  ELSE heapPush(newPool(n - 1), [w \in Workers |-> 0], n)

NoTrace == [sentTo |-> <<>>, recvBy |-> <<>>, replied |-> 0, notified |-> 0,
            accounted |-> 0]

InitLB ==
  /\ pool = newPool(workerSize).pool
  /\ idx = newPool(workerSize).idx
  /\ pending = [w \in Workers |-> 0]
  /\ work = [w \in Workers |-> <<>>]
  /\ done = <<>>
  /\ wpc = [w \in Workers |-> "recv"]
  /\ wreq = [w \in Workers |-> NoReq]
  /\ cpc = [c \in Clients |-> "sleep"]
  /\ creq = [c \in Clients |-> NoReq]
  /\ dpc = "select"
  /\ dreq = NoReq
  /\ dw = NoWorker
  /\ nextId = 1
  /\ trace = [t \in TaskIds |-> NoTrace]
  /\ dispatches = 0
  /\ completions = 0
  /\ printed = <<>>
  /\ stale = FALSE
  /\ streak = 0

Init == InitLB /\ ClockIdle /\ TilStart


\* ---- createRequest -----------------------------------------------------
\* The producer wakes from its sleep and blocks in  req <- Request{..., res}.
\* Requests are numbered when the dispatcher receives them; the model stops
\* creating requests once MaxTasks exist.
Created == (nextId - 1) + Cardinality({c \in Clients : cpc[c] = "send"})

ClientSubmit(c) ==
  /\ cpc[c] = "sleep"
  /\ Created < MaxTasks
  /\ creq' = [creq EXCEPT ![c] = [id |-> 0, res |-> c]]
  /\ cpc' = [cpc EXCEPT ![c] = "send"]
  /\ UNCHANGED otherVars
  /\ UNCHANGED <<pool, idx, pending, work, done, wpc, wreq, dpc, dreq, dw,
                 nextId, trace, dispatches, completions, printed, stale, streak>>

\* ---- Worker.do ---------------------------------------------------------
\* Variant: the worker never sends the result.
DoNextNoReply(pc) ==
  CASE pc = "recv"   -> "notify"
    [] pc = "notify" -> "recv"
    [] pc = "reply"  -> "recv"

\* Variant: the notification is sent before the result.
DoNextNotifyFirst(pc) ==
  CASE pc = "recv"   -> "notify"
    [] pc = "notify" -> "reply"
    [] pc = "reply"  -> "recv"

\* The order of the three statements of the loop body.
DoNext(pc) ==
  CASE pc = "recv"   -> "reply"
    [] pc = "reply"  -> "notify"
    [] pc = "notify" -> "recv"

\* Variant: the newest request is taken instead of the oldest.
WorkerRecvNewest(w) ==
  /\ wpc[w] = "recv"
  /\ work[w] # <<>>
  /\ wreq' = [wreq EXCEPT ![w] = work[w][Len(work[w])]]
  /\ work' = [work EXCEPT ![w] = SubSeq(work[w], 1, Len(work[w]) - 1)]
  /\ wpc' = [wpc EXCEPT ![w] = DoNext("recv")]
  /\ trace' = [trace EXCEPT ![work[w][Len(work[w])].id].recvBy = Append(@, w)]
  /\ UNCHANGED otherVars
  /\ UNCHANGED <<pool, idx, pending, done, cpc, creq, dpc, dreq, dw,
                 nextId, dispatches, completions, printed, stale, streak>>

\* Variant: the request is read but stays in the channel.
WorkerRecvPeek(w) ==
  /\ wpc[w] = "recv"
  /\ work[w] # <<>>
  /\ wreq' = [wreq EXCEPT ![w] = Head(work[w])]
  /\ wpc' = [wpc EXCEPT ![w] = DoNext("recv")]
  /\ trace' = [trace EXCEPT ![Head(work[w]).id].recvBy = Append(@, w)]
  /\ UNCHANGED otherVars
  /\ UNCHANGED <<pool, idx, pending, work, done, cpc, creq, dpc, dreq, dw,
                 nextId, dispatches, completions, printed, stale, streak>>

\* req := <-w.work
WorkerRecv(w) ==
  /\ wpc[w] = "recv"
  /\ work[w] # <<>>
  /\ wreq' = [wreq EXCEPT ![w] = Head(work[w])]
  /\ work' = [work EXCEPT ![w] = Tail(work[w])]
  /\ wpc' = [wpc EXCEPT ![w] = DoNext("recv")]
  /\ trace' = [trace EXCEPT ![Head(work[w]).id].recvBy = Append(@, w)]
  /\ UNCHANGED otherVars
  /\ UNCHANGED <<pool, idx, pending, done, cpc, creq, dpc, dreq, dw,
                 nextId, dispatches, completions, printed, stale, streak>>

\* req.res <- math.Sin(...): res is unbuffered, the send completes together
\* with the producer's  <-res , after which the producer loops to its sleep.
WorkerReply(w) ==
  /\ wpc[w] = "reply"
  /\ cpc[wreq[w].res] = "recv"
  /\ cpc' = [cpc EXCEPT ![wreq[w].res] = "sleep"]
  /\ creq' = [creq EXCEPT ![wreq[w].res] = NoReq]
  /\ wpc' = [wpc EXCEPT ![w] = DoNext("reply")]
  /\ wreq' = [wreq EXCEPT ![w] = IF DoNext("reply") = "recv" THEN NoReq ELSE @]
  /\ trace' = [trace EXCEPT ![wreq[w].id].replied = @ + 1]
  /\ UNCHANGED otherVars
  /\ UNCHANGED <<pool, idx, pending, work, done, dpc, dreq, dw,
                 nextId, dispatches, completions, printed, stale, streak>>

\* Variant: the worker goes on without sending on done.
WorkerNotifySkipped(w) ==
  /\ wpc[w] = "notify"
  /\ wpc' = [wpc EXCEPT ![w] = DoNext("notify")]
  /\ wreq' = [wreq EXCEPT ![w] = IF DoNext("notify") = "recv" THEN NoReq ELSE @]
  /\ UNCHANGED otherVars
  /\ UNCHANGED <<pool, idx, pending, work, done, cpc, creq, dpc, dreq, dw,
                 nextId, trace, dispatches, completions, printed, stale,
                 streak>>

\* Variant: the worker also decrements its own pending.
WorkerNotifySelfDec(w) ==
  /\ wpc[w] = "notify"
  /\ Len(done) < DoneCap
  /\ done' = Append(done, [w |-> w, id |-> wreq[w].id])
  /\ pending' = [pending EXCEPT ![w] = @ - 1]
  /\ wpc' = [wpc EXCEPT ![w] = DoNext("notify")]
  /\ wreq' = [wreq EXCEPT ![w] = IF DoNext("notify") = "recv" THEN NoReq ELSE @]
  /\ trace' = [trace EXCEPT ![wreq[w].id].notified = @ + 1]
  /\ UNCHANGED otherVars
  /\ UNCHANGED <<pool, idx, work, cpc, creq, dpc, dreq, dw,
                 nextId, dispatches, completions, printed, stale, streak>>

\* done <- w  (buffered, capacity workerSize).  The task number travels
\* with the notification as history only.
WorkerNotify(w) ==
  /\ wpc[w] = "notify"
  /\ Len(done) < DoneCap
  /\ done' = Append(done, [w |-> w, id |-> wreq[w].id])
  /\ wpc' = [wpc EXCEPT ![w] = DoNext("notify")]
  /\ wreq' = [wreq EXCEPT ![w] = IF DoNext("notify") = "recv" THEN NoReq ELSE @]
  /\ trace' = [trace EXCEPT ![wreq[w].id].notified = @ + 1]
  /\ UNCHANGED otherVars
  /\ UNCHANGED <<pool, idx, pending, work, cpc, creq, dpc, dreq, dw,
                 nextId, dispatches, completions, printed, stale, streak>>

\* ---- LoadBalancer.print ------------------------------------------------
\* The pending counts in pool order, as written by print (avg and variance
\* are computed from the same numbers).  print assigns to nothing but its
\* own locals.
print(h, p) == [i \in 1..Len(h.pool) |-> p[h.pool[i]]]

\* Variant: the counts are cleared once they are written.
printRunClearing(h, p) ==
  [h |-> h, pending |-> [w \in DOMAIN p |-> 0], out |-> print(h, p)]

\* A call of print: the pool and the counts it leaves, and what it writes.
printRun(h, p) == [h |-> h, pending |-> p, out |-> print(h, p)]

\* ---- LoadBalancer.dispatch ---------------------------------------------
\* Variant: Pool.Pop is called directly instead of heap.Pop.
dispatchPopLast(h, p) ==
  LET r == PoolPop(h)
  IN  [w |-> r.w, h |-> [pool |-> r.pool, idx |-> r.idx]]

\* w := heap.Pop(&b.pool).(*Worker)
dispatchPop(h, p) ==
  LET r == heapPop(h, p)
  IN  [w |-> r.w, h |-> [pool |-> r.pool, idx |-> r.idx]]

\* Variant: w.pending++ is missing.
dispatchPushNoInc(h, p, w) ==
  [h |-> heapPush(h, p, w), pending |-> p]

\* w.pending++ ; heap.Push(&b.pool, w)
dispatchPush(h, p, w) ==
  LET p2 == [p EXCEPT ![w] = @ + 1]
  IN  [h |-> heapPush(h, p2, w), pending |-> p2]

\* ---- LoadBalancer.completed --------------------------------------------
\* Variant: w.pending-- comes after the worker is put back.
completedDecLast(h, p, w) ==
  IF RemovePanics(h, h.idx[w])
  THEN [h |-> h, pending |-> p, panic |-> TRUE]
  ELSE [h |-> heapPush(heapRemove(h, p, h.idx[w]), p, w),
        pending |-> [p EXCEPT ![w] = @ - 1], panic |-> FALSE]

\* Variant: the count is decremented in place, the heap is not repaired.
completedInPlace(h, p, w) ==
  [h |-> h, pending |-> [p EXCEPT ![w] = @ - 1], panic |-> FALSE]

\* w.pending-- ; heap.Remove(&b.pool, w.idx) ; heap.Push(&b.pool, w)
completed(h, p, w) ==
  LET p2 == [p EXCEPT ![w] = @ - 1]
  IN  IF RemovePanics(h, h.idx[w])
      THEN [h |-> h, pending |-> p2, panic |-> TRUE]
      ELSE [h |-> heapPush(heapRemove(h, p2, h.idx[w]), p2, w),
            pending |-> p2, panic |-> FALSE]

\* The handle w is not the worker stored at pool[w.idx].
IsStale(h, w) ==
  \/ h.idx[w] \notin 0..(Len(h.pool) - 1)
  \/ h.pool[h.idx[w] + 1] # w

\* ---- LoadBalancer.balance ----------------------------------------------
\* case request := <-req: b.dispatch(request), up to the send on w.work.
\* req is unbuffered: the receive completes producer c's send, and c goes on
\* to  <-res .
BalanceDispatch(c) ==
  /\ dpc = "select"
  /\ cpc[c] = "send"
  /\ cpc' = [cpc EXCEPT ![c] = "recv"]
  /\ dreq' = [creq[c] EXCEPT !.id = nextId]
  /\ nextId' = nextId + 1
  /\ IF pool = <<>>
     THEN /\ dpc' = "panic"
          /\ UNCHANGED <<pool, idx, dw>>
     ELSE LET r == dispatchPop([pool |-> pool, idx |-> idx], pending)
          IN  /\ dw' = r.w
              /\ pool' = r.h.pool
              /\ idx' = r.h.idx
              /\ dpc' = "send"
  /\ UNCHANGED otherVars
  /\ UNCHANGED <<pending, work, done, wpc, wreq, creq, trace, dispatches,
                 completions, printed, stale, streak>>

\* dispatch: w.work <- req  (buffered, capacity reqClientCount; a handle
\* without a channel has a nil channel, on which a send blocks forever)
DispatchSend ==
  /\ dpc = "send"
  /\ dw \in DOMAIN work
  /\ Len(work[dw]) < WorkCap
  /\ work' = [work EXCEPT ![dw] = Append(@, dreq)]
  /\ trace' = [trace EXCEPT ![dreq.id].sentTo = Append(@, dw)]
  /\ dpc' = "inc"
  /\ UNCHANGED otherVars
  /\ UNCHANGED <<pool, idx, pending, done, wpc, wreq, cpc, creq, dreq, dw,
                 nextId, dispatches, completions, printed, stale, streak>>

\* dispatch: w.pending++ ; heap.Push(&b.pool, w) ; then b.print()
DispatchPush ==
  /\ dpc = "inc"
  /\ LET r == dispatchPush([pool |-> pool, idx |-> idx], pending, dw)
         q == printRun(r.h, r.pending)
     IN  /\ pool' = q.h.pool
         /\ idx' = q.h.idx
         /\ pending' = q.pending
         /\ printed' = q.out
  /\ dw' = NoWorker
  /\ dreq' = NoReq
  /\ dispatches' = dispatches + 1
  /\ streak' = IF streak >= 0 THEN streak + 1 ELSE -1
  /\ dpc' = "select"
  /\ UNCHANGED otherVars
  /\ UNCHANGED <<work, done, wpc, wreq, cpc, creq, nextId, trace,
                 completions, stale>>

\* b.completed(w) ; b.print()  on the pool h and counts p, for a handle w
\* and the task it reports (0: none).  An index out of range in heap.Remove
\* stops the goroutine.
RunCompleted(h, p, w, t) ==
  LET r == completed(h, p, w)
      q == IF r.panic THEN [h |-> r.h, pending |-> r.pending, out |-> printed]
           ELSE printRun(r.h, r.pending)
  IN  /\ pool' = q.h.pool
      /\ idx' = q.h.idx
      /\ pending' = q.pending
      /\ dpc' = IF r.panic THEN "panic" ELSE "select"
      /\ printed' = q.out
      /\ completions' = IF r.panic THEN completions ELSE completions + 1
      /\ stale' = (stale \/ IsStale(h, w))
      /\ streak' = IF \A v \in DOMAIN q.pending : q.pending[v] = 0
                   THEN 0 ELSE -1
      /\ trace' = IF t \in TaskIds
                  THEN [trace EXCEPT ![t].accounted = @ + 1]
                  ELSE trace

\* Variant: notifications are also handled while a dispatch is in progress.
BalanceCompletedAnyTime ==
  /\ dpc \in {"select", "send", "inc"}
  /\ done # <<>>
  /\ done' = Tail(done)
  /\ RunCompleted([pool |-> pool, idx |-> idx], pending,
                  Head(done).w, Head(done).id)
  /\ UNCHANGED otherVars
  /\ UNCHANGED <<work, wpc, wreq, cpc, creq, dreq, dw, nextId, dispatches>>

\* case w := <-b.done: b.completed(w)
BalanceCompleted ==
  /\ dpc = "select"
  /\ done # <<>>
  /\ done' = Tail(done)
  /\ RunCompleted([pool |-> pool, idx |-> idx], pending,
                  Head(done).w, Head(done).id)
  /\ UNCHANGED otherVars
  /\ UNCHANGED <<work, wpc, wreq, cpc, creq, dreq, dw, nextId, dispatches>>

\* completed called with a handle the pool does not track: a Worker value
\* that newLoadBalancer did not create, whose idx field is i.
StaleCompleted(i) ==
  /\ dpc = "select"
  /\ Foreign \notin DOMAIN pending
  /\ RunCompleted([pool |-> pool, idx |-> idx @@ (Foreign :> i)],
                  pending @@ (Foreign :> 0), Foreign, 0)
  /\ UNCHANGED otherVars
  /\ UNCHANGED <<work, done, wpc, wreq, cpc, creq, dreq, dw, nextId,
                 dispatches>>

\* ---- the program -------------------------------------------------------
ClientStep == \E c \in Clients : ClientSubmit(c)

WorkerStep == \E w \in Workers : WorkerRecv(w) \/ WorkerReply(w) \/ WorkerNotify(w)

DispatcherStep ==
  \/ \E c \in Clients : BalanceDispatch(c)
  \/ DispatchSend
  \/ DispatchPush
  \/ BalanceCompleted

Next == ClientStep \/ WorkerStep \/ DispatcherStep

Spec == Init /\ [][Next]_vars

\* The scheduler runs every goroutine that can run: a producer, a worker,
\* and the dispatcher in its receive from req and in the steps of dispatch,
\* take a step when one stays possible.  Nothing is assumed about when the
\* dispatcher takes a notification from done.
Fairness ==
  /\ WF_vars(ClientStep)
  /\ WF_vars(WorkerStep)
  /\ WF_vars(\E c \in Clients : BalanceDispatch(c))
  /\ WF_vars(DispatchSend)
  /\ WF_vars(DispatchPush)

SpecFair == Init /\ [][Next]_vars /\ Fairness

\* The program with one call of completed for an untracked handle.
NextStale == Next \/ \E i \in -1..workerSize : StaleCompleted(i)

SpecStale == Init /\ [][NextStale]_vars

\* ---- properties ---------------------------------------------------------
\* The dispatcher has finished an event (or has not started one): it is back
\* at the select of balance.
AfterEvent == dpc = "select"

RECURSIVE SumOver(_, _)
SumOver(f, S) ==
  IF S = {} THEN 0
  ELSE LET x == CHOOSE y \in S : TRUE IN f[x] + SumOver(f, S \ {x})

PoolSet == {pool[i] : i \in 1..Len(pool)}

\* C1: each time balance has finished processing an event, the pool is a
\* min-heap by pending: for every index i > 0, pool[i].pending >=
\* pool[(i-1)/2].pending.
C1_HeapAfterEvent ==
  AfterEvent =>
    \A i \in 1..(Len(pool) - 1) :
      pending[pool[i + 1]] >= pending[pool[Parent(i) + 1]]

\* C1 case: after a dispatch and a completion, with unequal counts in the pool.
C1_Witness ==
  /\ AfterEvent
  /\ dispatches >= 2
  /\ completions >= 1
  /\ \E i \in 2..Len(pool) : pending[pool[i]] > pending[pool[1]]

\* C2: the worker dispatch has popped has, before the increment, the minimum
\* of the pending counts of all workers.
C2_DispatchToMinimum ==
  dpc \in {"send", "inc"} =>
    \A v \in Workers : pending[dw] <= pending[v]

\* C2 case: a dispatch in progress while another worker has a larger count.
C2_Witness ==
  /\ dpc = "send"
  /\ pending[dw] = 0
  /\ \E v \in Workers : pending[v] > 0

\* C3: after every event, the sum of pending over all workers equals the
\* number of dispatch calls minus the number of completed calls so far.
C3_SumPending ==
  AfterEvent => SumOver(pending, Workers) = dispatches - completions

\* C3 case: both kinds of event have happened and tasks are outstanding.
C3_Witness ==
  /\ AfterEvent
  /\ dispatches >= 3
  /\ completions >= 1
  /\ SumOver(pending, Workers) >= 2

\* C4: no worker's pending count is negative in any reachable state.
C4_PendingNonNegative ==
  \A w \in Workers : pending[w] >= 0

\* C4 case: the worker has already notified completion of a task whose
\* dispatch has sent it but not yet incremented pending.
C4_Witness ==
  /\ dpc = "inc"
  /\ pending[dw] = 0
  /\ \E k \in 1..Len(done) : done[k].w = dw /\ done[k].id = dreq.id

\* C5: idx is the true index: every worker in the pool is at pool[idx], a
\* worker popped by a dispatch in progress has idx -1, and after every event
\* every worker is in the pool.
C5_IdxIsPosition ==
  /\ \A i \in 1..Len(pool) : idx[pool[i]] = i - 1
  /\ \A w \in Workers : w \notin PoolSet => (idx[w] = -1 /\ w = dw)
  /\ AfterEvent =>
       \A w \in Workers : idx[w] \in 0..(Len(pool) - 1) /\ pool[idx[w] + 1] = w

\* C5 case: after events that moved workers, the pool is not in creation order.
C5_Witness ==
  /\ AfterEvent
  /\ completions >= 1
  /\ \E i \in 1..Len(pool) : pool[i] # i

\* C6: after initialization and after every event the pool holds exactly
\* the workerSize workers that newLoadBalancer created, each once; dispatch
\* never pops from an empty pool.
C6_PoolIsRoster ==
  /\ AfterEvent =>
       /\ Len(pool) = workerSize
       /\ PoolSet = Workers
  /\ dpc # "panic"
  /\ dpc \in {"send", "inc"} =>
       /\ Len(pool) = workerSize - 1
       /\ PoolSet = Workers \ {dw}

\* C6 case: dispatches and completions have both re-inserted workers.
C6_Witness ==
  /\ AfterEvent
  /\ dispatches >= 2
  /\ completions >= 2

\* C7: every step of Worker.do and of createRequest leaves pending, idx and
\* the pool unchanged.
C7_WorkersLeavePoolAlone ==
  [][(WorkerStep \/ ClientStep) => UNCHANGED <<pending, idx, pool>>]_vars

\* C7 case: a worker has received, answered and notified while the
\* dispatcher still counts its task.
C7_Witness ==
  \E w \in Workers :
    /\ pending[w] >= 1
    /\ \E k \in 1..Len(done) : done[k].w = w
    /\ \E c \in Clients : cpc[c] = "send"

\* C8: a completion for a handle that is not the worker at pool[w.idx] halts
\* the dispatcher.
C8_StaleCompletionHalts ==
  stale => dpc = "panic"

\* C9: for every task, the result is delivered before the notification is
\* sent, and pending is decremented for it only after the notification.
C9_ReplyBeforeDone ==
  \A t \in TaskIds :
    /\ trace[t].notified <= trace[t].replied
    /\ trace[t].accounted <= trace[t].notified

\* C9 case: a task's result is delivered, its notification sent and counted.
C9_Witness ==
  \E t \in TaskIds :
    /\ trace[t].accounted = 1
    /\ \E u \in TaskIds : trace[u].replied = 1 /\ trace[u].notified = 0

\* Nothing is in progress: every request created has been fully handled.
Quiet ==
  /\ dpc = "select"
  /\ done = <<>>
  /\ \A w \in Workers : wpc[w] = "recv" /\ work[w] = <<>>
  /\ \A c \in Clients : cpc[c] = "sleep"

\* C10: every task is sent to exactly one worker, received once and by that
\* worker, answered once and notified once.
C10_ExactlyOnce ==
  \A t \in TaskIds :
    /\ Len(trace[t].sentTo) <= 1
    /\ Len(trace[t].recvBy) <= 1
    /\ trace[t].replied <= 1
    /\ trace[t].notified <= 1
    /\ trace[t].accounted <= 1
    /\ trace[t].recvBy # <<>> => trace[t].recvBy = trace[t].sentTo
    /\ trace[t].replied = 1 => Len(trace[t].recvBy) = 1
    /\ (t < nextId /\ ~(dpc = "send" /\ dreq.id = t)) =>
         Len(trace[t].sentTo) = 1
    /\ (Quiet /\ t < nextId) =>
         /\ Len(trace[t].recvBy) = 1
         /\ trace[t].replied = 1
         /\ trace[t].notified = 1
         /\ trace[t].accounted = 1
    /\ t >= nextId => trace[t] = NoTrace

\* C10 case: all MaxTasks tasks were handled, by more than one worker.
C10_Witness ==
  /\ Quiet
  /\ nextId = MaxTasks + 1
  /\ \E t, u \in TaskIds : trace[t].recvBy # trace[u].recvBy

Queued == SumOver([w \in Workers |-> Len(work[w])], Workers)

\* C12: dispatch never blocks in its send: no work channel, nor all of them
\* together, holds more than reqClientCount requests, and the channel
\* dispatch sends on has room; the requests whose result is undelivered are
\* those of the producers waiting in  <-res , one each.
C12_EnqueueNeverBlocks ==
  /\ \A w \in Workers : Len(work[w]) <= reqClientCount
  /\ Queued <= reqClientCount
  /\ dpc = "send" => Len(work[dw]) < WorkCap
  /\ Queued + Cardinality({w \in Workers : wpc[w] = DoNext("recv")})
       + (IF dpc = "send" THEN 1 ELSE 0)
     = Cardinality({c \in Clients : cpc[c] = "recv"})

\* C12 case: dispatch sends on a channel that already holds a request.
C12_Witness ==
  /\ dpc = "send"
  /\ Len(work[dw]) >= 1

\* C13: of two tasks sent to the same worker, the one enqueued first has its
\* result delivered first (tasks are numbered in the order of dispatch).
C13_WorkerFifo ==
  \A t1, t2 \in TaskIds :
    (/\ t1 < t2
     /\ trace[t1].sentTo # <<>>
     /\ trace[t1].sentTo = trace[t2].sentTo
     /\ trace[t2].replied >= 1)
    => trace[t1].replied >= 1

\* C13 case: a worker has delivered the result of the first of two tasks
\* that were in its channel together, the second still waits.
C13_Witness ==
  \E t1, t2 \in TaskIds :
    /\ t1 < t2
    /\ trace[t1].sentTo # <<>>
    /\ trace[t1].sentTo = trace[t2].sentTo
    /\ trace[t1].replied = 1
    /\ trace[t2].replied = 0
    /\ trace[t2].recvBy = <<>>

MaxPending == CHOOSE m \in {pending[w] : w \in Workers} :
                \A w \in Workers : pending[w] <= m
MinPending == CHOOSE m \in {pending[w] : w \in Workers} :
                \A w \in Workers : pending[w] >= m

\* C14: after k consecutive dispatches from a pool with every pending 0 and
\* no completion in between, the pending counts differ by at most 1 and sum
\* to k; after workerSize of them every worker has exactly 1.
C14_EvenSpread ==
  (AfterEvent /\ streak >= 0) =>
    /\ MaxPending - MinPending <= 1
    /\ SumOver(pending, Workers) = streak
    /\ streak = workerSize => \A w \in Workers : pending[w] = 1

\* C14 case: workerSize dispatches in a row, starting from a pool that had
\* returned to all 0 after earlier events.
C14_Witness ==
  /\ AfterEvent
  /\ streak = workerSize
  /\ completions >= 1

\* C15: a completion processed for a worker whose pending is 1 leaves it
\* with pending 0, the root of the pool then has pending 0, and the root is
\* that worker when no other worker has pending 0.
C15_CompletedToRoot ==
  [][(BalanceCompleted /\ pending[Head(done).w] = 1) =>
       /\ pending'[Head(done).w] = 0
       /\ pending'[pool'[1]] = 0
       /\ (\A v \in Workers \ {Head(done).w} : pending'[v] > 0)
            => pool'[1] = Head(done).w]_vars

\* C15 case: the dispatcher is at its select with a notification first in
\* done for a worker that has pending 1 and is not the root, while every
\* other worker has pending above 0.
C15_Witness ==
  /\ AfterEvent
  /\ done # <<>>
  /\ pending[Head(done).w] = 1
  /\ pool[1] # Head(done).w
  /\ \A v \in Workers \ {Head(done).w} : pending[v] > 0

\* C16: print leaves the pool, pending and idx as they are, and an
\* observation made now, with no event since the last one, writes the same
\* counts in the same order as the last one did.
C16_PrintObservesOnly ==
  (AfterEvent /\ dispatches + completions > 0) =>
    LET q == printRun([pool |-> pool, idx |-> idx], pending)
    IN  /\ q.h = [pool |-> pool, idx |-> idx]
        /\ q.pending = pending
        /\ q.out = printed

\* C16 case: print has run after a dispatch and a completion, with counts
\* that are not all 0, and workers have moved on since.
C16_Witness ==
  /\ AfterEvent
  /\ dispatches >= 2
  /\ completions >= 1
  /\ \E w \in Workers : pending[w] > 0
  /\ done # <<>>

\* Notifications of worker w waiting in done.
InDone(w) == Cardinality({k \in 1..Len(done) : done[k].w = w})

\* C18: while the dispatcher waits in its select, each worker's pending is
\* the number of requests in its work channel, plus 1 if it has received a
\* request and not yet sent on done, plus its notifications in done; so it
\* is at least the number of its requests whose result is undelivered.
C18_PendingAccounting ==
  AfterEvent =>
    \A w \in Workers :
      /\ pending[w] = Len(work[w]) + (IF wpc[w] # "recv" THEN 1 ELSE 0)
                        + InDone(w)
      /\ pending[w] >= Len(work[w])
                        + (IF wpc[w] = DoNext("recv") THEN 1 ELSE 0)

\* C18 case: a worker with pending 2, one of them a notification in done,
\* the other a request queued or in hand.
C18_Witness ==
  /\ AfterEvent
  /\ \E w \in Workers :
       /\ pending[w] = 2
       /\ InDone(w) = 1
       /\ (work[w] # <<>> \/ wpc[w] # "recv")

\* ---- clock: TestNewClockEquality -----------------------------------------
\* got := clock.NewClock(tc.testTime)
TestNewClock ==
  /\ got = NoClock
  /\ got' = NewClock(testTime)
  /\ UNCHANGED <<testTime, lbVars, tilVars>>

\* One test case, for each time of TestTimes.
InitClock ==
  /\ InitLB
  /\ testTime \in TestTimes
  /\ got = NoClock
  /\ TilStart

NextClock == TestNewClock

SpecClock == InitClock /\ [][NextClock]_vars

\* C17: NewClock(t) has the hour, minute and second of t, the three of them
\* a time of day, and its Time is equal to t for cmp.Diff (Time.Equal),
\* whether or not t carries a monotonic reading.
C17_NewClockEqualsInput ==
  got # NoClock =>
    /\ got.Hour = Hour(testTime)
    /\ got.Minute = Minute(testTime)
    /\ got.Second = Second(testTime)
    /\ got.Hour \in 0..23 /\ got.Minute \in 0..59 /\ got.Second \in 0..59
    /\ (got.Hour * SecondsPerHour + got.Minute * SecondsPerMinute
        + got.Second - testTime.sec - testTime.offset) % SecondsPerDay = 0
    /\ Equal(got.Time, testTime)
    /\ cmpEqual(got, Want(testTime))

\* C17 case: NewClock has run on a time.Now() value with nanoseconds, in a
\* location away from UTC.
C17_Witness ==
  /\ got # NoClock
  /\ testTime.hasMonotonic
  /\ testTime.nsec # 0
  /\ testTime.offset # 0
  /\ got.Time # testTime

\* ---- cmd/get-til: pipeline ------------------------------------------------
\* A panic in convertToConsenseFormat is not recovered: the program ends.
Crashed == convpc = "panic"

\* fmt.Fprintln(writer, "- "+title)
ExtractTitle ==
  /\ extpc = "title"
  /\ ~Crashed
  /\ \E title \in Titles :
       pipe' = Append(pipe, Written(title.lead, title.len))
  /\ extpc' = "scan"
  /\ UNCHANGED <<collect, scanErr, nread, pipeClosed, convpc, indentLevel,
                 prevSpaces, output>>
  /\ UNCHANGED <<lbVars, clockVars>>

\* scanner.Scan() returns a line, or fails on one that is too long: one
\* pass of the loop of extractTILSection.
ExtractLine ==
  /\ extpc = "scan"
  /\ ~Crashed
  /\ nread < MaxLines
  /\ nread' = nread + 1
  /\ \E line \in InputLines :
       IF ~ScanFits(line.len)
       THEN /\ scanErr' = TRUE
            /\ extpc' = "flush"
            /\ UNCHANGED <<collect, pipe>>
       ELSE IF line.kind = "blank"
       THEN UNCHANGED <<extpc, collect, scanErr, pipe>>
       ELSE IF line.kind = "head" /\ collect
       THEN /\ extpc' = "flush"
            /\ UNCHANGED <<collect, scanErr, pipe>>
       ELSE IF line.kind = "til"
       THEN /\ collect' = TRUE
            /\ UNCHANGED <<extpc, scanErr, pipe>>
       ELSE IF collect
       THEN /\ pipe' = Append(pipe, Written(line.lead, line.len))
            /\ UNCHANGED <<extpc, collect, scanErr>>
       ELSE UNCHANGED <<extpc, collect, scanErr, pipe>>
  /\ UNCHANGED <<pipeClosed, convpc, indentLevel, prevSpaces, output>>
  /\ UNCHANGED <<lbVars, clockVars>>

\* scanner.Scan() returns false at the end of the input.
ExtractEOF ==
  /\ extpc = "scan"
  /\ ~Crashed
  /\ extpc' = "flush"
  /\ UNCHANGED <<collect, scanErr, nread, pipe, pipeClosed, convpc,
                 indentLevel, prevSpaces, output>>
  /\ UNCHANGED <<lbVars, clockVars>>

\* defer writer.Flush(): the Write to pw returns when the reader has taken
\* every byte.
ExtractFlush ==
  /\ extpc = "flush"
  /\ ~Crashed
  /\ pipe = <<>>
  /\ extpc' = IF scanErr THEN "closeErr" ELSE "close"
  /\ UNCHANGED <<collect, scanErr, nread, pipe, pipeClosed, convpc,
                 indentLevel, prevSpaces, output>>
  /\ UNCHANGED <<lbVars, clockVars>>

\* pw.CloseWithError(err)
ExtractCloseWithError ==
  /\ extpc = "closeErr"
  /\ ~Crashed
  /\ pipeClosed' = "err"
  /\ extpc' = "close"
  /\ UNCHANGED <<collect, scanErr, nread, pipe, convpc, indentLevel,
                 prevSpaces, output>>
  /\ UNCHANGED <<lbVars, clockVars>>

\* defer pw.Close(): the goroutine ends.
ExtractClose ==
  /\ extpc = "close"
  /\ ~Crashed
  /\ pipeClosed' = IF pipeClosed = "open" THEN "eof" ELSE pipeClosed
  /\ extpc' = "exited"
  /\ UNCHANGED <<collect, scanErr, nread, pipe, convpc, indentLevel,
                 prevSpaces, output>>
  /\ UNCHANGED <<lbVars, clockVars>>

\* One pass of the loop of convertToConsenseFormat.  A line too long for
\* the Scanner ends the function with ErrTooLong, the rest of the line
\* unread; a negative count panics in strings.Repeat.
ConvertLine ==
  /\ convpc = "scan"
  /\ pipe # <<>>
  /\ LET cur == Head(pipe)
         level == nextIndent(indentLevel, prevSpaces, cur.spaces)
     IN  IF ~ScanFits(cur.len)
         THEN /\ convpc' = "error"
              /\ UNCHANGED <<pipe, indentLevel, prevSpaces, output>>
         ELSE /\ pipe' = Tail(pipe)
              /\ indentLevel' = level
              /\ IF level < 0
                 THEN /\ convpc' = "panic"
                      /\ UNCHANGED <<prevSpaces, output>>
                 ELSE /\ output' = Append(output, level)
                      /\ prevSpaces' = cur.spaces
                      /\ UNCHANGED convpc
  /\ UNCHANGED <<extpc, collect, scanErr, nread, pipeClosed>>
  /\ UNCHANGED <<lbVars, clockVars>>

\* scanner.Scan() returns false: the pipe is closed and empty.
ConvertEnd ==
  /\ convpc = "scan"
  /\ pipe = <<>>
  /\ pipeClosed # "open"
  /\ convpc' = IF pipeClosed = "err" THEN "error" ELSE "returned"
  /\ UNCHANGED <<extpc, collect, scanErr, nread, pipe, pipeClosed,
                 indentLevel, prevSpaces, output>>
  /\ UNCHANGED <<lbVars, clockVars>>

ExtractStep ==
  \/ ExtractTitle
  \/ ExtractLine
  \/ ExtractEOF
  \/ ExtractFlush
  \/ ExtractCloseWithError
  \/ ExtractClose

ConvertStep == ConvertLine \/ ConvertEnd

NextTil == ExtractStep \/ ConvertStep

\* Both goroutines run whenever they can.
FairnessTil == WF_vars(ExtractStep) /\ WF_vars(ConvertStep)

SpecTil == Init /\ [][NextTil]_vars /\ FairnessTil

\* C19: indentLevel is never negative and the conversion never panics.
C19_IndentNeverNegative ==
  indentLevel >= 0 /\ convpc # "panic"

\* C20: once convertToConsenseFormat has returned an error, the goroutine
\* that runs extractTILSection eventually exits.
C20_ExtractorExits ==
  (convpc = "error") ~> (extpc = "exited")
====
